---- MODULE Spec2Model ----
(***************************************************************************)
(* A model of main.py: the Gmail / Google Calendar facade.                 *)
(*                                                                         *)
(* Text is modelled as a sequence of one-character strings wherever the    *)
(* code looks inside it (header names, snippets, timezone strings).  An    *)
(* ISO-8601 text is the record of its three lexical parts: the date (a     *)
(* day number), the time of day <<h, m, s>> (<<>> for a date-only text)    *)
(* and the characters of the zone suffix.  JSON values carry their kind.   *)
(* Each handler runs as a sequence of steps separated by its remote calls; *)
(* the UTC clock may tick between any two steps.                           *)
(***************************************************************************)
EXTENDS Integers, Sequences, FiniteSets, TLC

VARIABLES
  utcNow,   \* the current UTC date, a day number
  pc,       \* where the request in progress stands
  handler,  \* the handler serving it
  req,      \* its validated input
  local,    \* the handler's local variables
  calls,    \* the remote calls the handler has issued, in order
  returns,  \* how each of them ended, in order
  resp      \* the HTTP response

vars == <<utcNow, pc, handler, req, local, calls, returns, resp>>

(* ------------------------------ bounds -------------------------------- *)
\* the UTC clock runs over the days 0 .. MaxDay
MaxDay == 2
\* longest header list of a raw message handed to the normalizer
MaxHeaders == 3
\* longest generated snippet (the named snippets are longer)
MaxSnippetLen == 3
\* most message references / events a remote list call returns in the model
MaxRefs == 2
MaxEvents == 2

Days == 0..MaxDay

(* ------------------------------- text --------------------------------- *)
UpperLetters ==
  <<"A","B","C","D","E","F","G","H","I","J","K","L","M",
    "N","O","P","Q","R","S","T","U","V","W","X","Y","Z">>
LowerLetters ==
  <<"a","b","c","d","e","f","g","h","i","j","k","l","m",
    "n","o","p","q","r","s","t","u","v","w","x","y","z">>

\* str.lower() on one character
LowerChar(c) ==
  IF \E i \in 1..26 : UpperLetters[i] = c
    THEN LowerLetters[CHOOSE i \in 1..26 : UpperLetters[i] = c]
    ELSE c

\* str.lower()
Lower(s) == [i \in 1..Len(s) |-> LowerChar(s[i])]

\* str.startswith(p)
StartsWith(s, p) == Len(s) >= Len(p) /\ SubSeq(s, 1, Len(p)) = p

\* all sequences over S of length at most n
SeqsUpTo(S, n) == UNION {[1..k -> S] : k \in 0..n}

(* --------------------------- JSON values ------------------------------ *)
JNull == [kind |-> "null"]
JStr(s) == [kind |-> "str", s |-> s]
JObj(d) == [kind |-> "obj", o |-> d]

(* ------------------------ Message Normalizer -------------------------- *)
Subject == <<"s","u","b","j","e","c","t">>
From == <<"f","r","o","m">>

HeaderNames ==
  { <<"S","u","b","j","e","c","t">>, <<"s","u","b","j","e","c","t">>,
    <<"F","R","O","M">>, <<"f","r","o","m">>, <<"T","o">> }
HeaderValues == { "", "a", "b" }
Headers == [name : HeaderNames, value : HeaderValues]

\* the for loop of get_message_data from header i on: the subject branch
\* overwrites; the break sits inside the from branch
RECURSIVE ScanHeaders(_, _, _, _)
ScanHeaders(headers, i, subject, from_email) ==
  IF i > Len(headers) THEN [subject |-> subject, from |-> from_email]
  ELSE LET name == Lower(headers[i].name)
           value == headers[i].value
       IN IF name = Subject
            THEN ScanHeaders(headers, i + 1, value, from_email)
          ELSE IF name = From
            THEN IF subject # "" /\ value # ""
                   THEN [subject |-> subject, from |-> value]
                   ELSE ScanHeaders(headers, i + 1, subject, value)
          ELSE ScanHeaders(headers, i + 1, subject, from_email)

\* message.get("snippet", "")
SnippetOrEmpty(message) ==
  IF "snippet" \in DOMAIN message THEN message.snippet ELSE <<>>

get_message_data(message) ==
  LET r == ScanHeaders(message.headers, 1, "", "")
  IN [email_id |-> message.id,
      snippet |-> SnippetOrEmpty(message),
      subject |-> r.subject,
      from |-> r.from]

(* --------------------- the normalizer on its own ---------------------- *)
NormalizerInputs ==
  {[id |-> "m1", snippet |-> <<"x">>, headers |-> h] :
     h \in SeqsUpTo(Headers, MaxHeaders)}

InitNormalizer ==
  /\ utcNow = 0
  /\ pc = "idle"
  /\ handler = "get_message_data"
  /\ req \in [message : NormalizerInputs]
  /\ local = [none |-> TRUE]
  /\ calls = <<>>
  /\ returns = <<>>
  /\ resp = [status |-> "none"]

Normalize ==
  /\ pc = "idle"
  /\ handler = "get_message_data"
  /\ resp' = [status |-> "ok", body |-> get_message_data(req.message)]
  /\ pc' = "done"
  /\ UNCHANGED <<utcNow, handler, req, local, calls, returns>>

NextNormalizer == Normalize

SpecNormalizer == InitNormalizer /\ [][NextNormalizer]_vars

\* the value of the first header named n (case-insensitively), "" when none
FirstValue(headers, n) ==
  IF \E i \in 1..Len(headers) : Lower(headers[i].name) = n
    THEN headers[CHOOSE i \in 1..Len(headers) :
                   /\ Lower(headers[i].name) = n
                   /\ \A j \in 1..(i - 1) : Lower(headers[j].name) # n].value
    ELSE ""

\* C1: get_message_data returns the value of the FIRST subject header and of
\* the FIRST from header of the list, "" for a name that does not occur.
C1_FirstOccurrenceWins ==
  (handler = "get_message_data" /\ pc = "done") =>
     /\ resp.body.subject = FirstValue(req.message.headers, Subject)
     /\ resp.body.from = FirstValue(req.message.headers, From)


(* ---------------------- the service: common parts --------------------- *)
\* how a remote call can end: a result, googleapiclient's HttpError, or any
\* other exception (transport, credential refresh)
Outcomes == { "ok", "HttpError", "Other" }

MessageIds == { "abc123", "m2" }

\* FastAPI's answer to HTTPException(status_code=500) and to an exception
\* that escapes the handler
Error500 == [status |-> "error", code |-> 500]

\* no handler keeps state across requests: every request starts from the
\* state after construction, at any time of the clock
Idle == pc = "idle"

Init ==
  /\ utcNow \in Days
  /\ pc = "idle"
  /\ handler = "none"
  /\ req = [none |-> TRUE]
  /\ local = [none |-> TRUE]
  /\ calls = <<>>
  /\ returns = <<>>
  /\ resp = [status |-> "none"]

\* midnight UTC passes
Tick ==
  /\ utcNow < MaxDay
  /\ utcNow' = utcNow + 1
  /\ UNCHANGED <<pc, handler, req, local, calls, returns, resp>>

(* ----------------------------- GET /emails ---------------------------- *)
MaxResults == 10

Work == <<"W","o","r","k">>
Labels == { JNull, JStr(<<>>), JStr(Work) }

\* q=f"label:{label}" if label else ""
LabelQuery(label) ==
  IF label.kind = "str" /\ label.s # <<>>
    THEN <<"l","a","b","e","l",":">> \o label.s
    ELSE <<>>

SampleHeaderLists ==
  { <<>>,
    << [name |-> <<"S","u","b","j","e","c","t">>, value |-> "a"],
       [name |-> <<"F","R","O","M">>, value |-> "b"] >>,
    << [name |-> <<"f","r","o","m">>, value |-> "b"],
       [name |-> <<"T","o">>, value |-> "a"] >> }

\* what messages.get(format="full") can answer for message id
FullMessages(id) ==
  {[id |-> id, snippet |-> <<"x">>, headers |-> h] : h \in SampleHeaderLists}

\* the message references a list call can answer: at most maxResults of them
RefLists ==
  {r \in SeqsUpTo([id : MessageIds], MaxRefs) : Len(r) <= MaxResults}

GetMessageCall(id) == [op |-> "messages.get", userId |-> "me", id |-> id]

get_emails(label) ==
  /\ Idle
  /\ handler' = "get_emails"
  /\ req' = [label |-> label]
  /\ local' = [messages |-> <<>>, detailed_messages |-> <<>>, fetched |-> <<>>]
  /\ calls' = << [op |-> "messages.list", userId |-> "me",
                  q |-> LabelQuery(label), maxResults |-> MaxResults] >>
  /\ returns' = <<>>
  /\ resp' = [status |-> "none"]
  /\ pc' = "emails_list"
  /\ UNCHANGED utcNow

\* lines 107-110 and the first iteration's call
EmailsListed(messages) ==
  IF messages = <<>>
    THEN /\ resp' = [status |-> "ok", emails |-> <<>>, count |-> 0]
         /\ pc' = "done"
         /\ UNCHANGED <<local, calls>>
    ELSE /\ local' = [local EXCEPT !.messages = messages]
         /\ calls' = Append(calls, GetMessageCall(messages[1].id))
         /\ pc' = "emails_get"
         /\ UNCHANGED resp

\* both except clauses of get_emails raise HTTPException(500)
EmailsFailed ==
  /\ resp' = Error500
  /\ pc' = "done"
  /\ UNCHANGED <<local, calls>>

EmailsListReturn ==
  /\ pc = "emails_list"
  /\ \/ /\ \E messages \in RefLists : EmailsListed(messages)
        /\ returns' = Append(returns, "ok")
     \/ /\ EmailsFailed
        /\ \E outcome \in Outcomes \ {"ok"} : returns' = Append(returns, outcome)
  /\ UNCHANGED <<utcNow, handler, req>>

\* EmailsFetched with insert(0, ...) for append: the list comes out reversed
EmailsFetched_prepends(msg) ==
  LET detailed == <<get_message_data(msg)>> \o local.detailed_messages
      k == Len(detailed)
  IN /\ local' = [local EXCEPT !.detailed_messages = detailed,
                               !.fetched = Append(local.fetched, msg)]
     /\ IF k < Len(local.messages)
          THEN /\ calls' = Append(calls, GetMessageCall(local.messages[k + 1].id))
               /\ pc' = "emails_get"
               /\ UNCHANGED resp
          ELSE /\ resp' = [status |-> "ok", emails |-> detailed, count |-> Len(detailed)]
               /\ pc' = "done"
               /\ UNCHANGED calls

\* line 125, then the next iteration's call or the return of line 127
EmailsFetched(msg) ==
  LET detailed == Append(local.detailed_messages, get_message_data(msg))
      k == Len(detailed)
  IN /\ local' = [local EXCEPT !.detailed_messages = detailed,
                               !.fetched = Append(local.fetched, msg)]
     /\ IF k < Len(local.messages)
          THEN /\ calls' = Append(calls, GetMessageCall(local.messages[k + 1].id))
               /\ pc' = "emails_get"
               /\ UNCHANGED resp
          ELSE /\ resp' = [status |-> "ok", emails |-> detailed, count |-> Len(detailed)]
               /\ pc' = "done"
               /\ UNCHANGED calls

EmailsGetReturn ==
  /\ pc = "emails_get"
  /\ \/ /\ \E msg \in FullMessages(calls[Len(calls)].id) : EmailsFetched(msg)
        /\ returns' = Append(returns, "ok")
     \/ /\ EmailsFailed
        /\ \E outcome \in Outcomes \ {"ok"} : returns' = Append(returns, outcome)
  /\ UNCHANGED <<utcNow, handler, req>>

(* -------------------------- POST /emails/reply ------------------------ *)
SnippetChars == { "R", "r", "E", "e", ":", "x" }
MeetingNotes == <<"m","e","e","t","i","n","g"," ","n","o","t","e","s">>
NamedSnippets ==
  { MeetingNotes,
    <<"R","e",":"," ","x">>,
    <<"R","E",":"," ","x">>,
    <<"R","e",":"," ","R","e",":"," ","x">> }
Snippets == SeqsUpTo(SnippetChars, MaxSnippetLen) \cup NamedSnippets

ReplyRequests ==
  [message_id : MessageIds, to : {"x@y.com"}, body : {"Thanks"},
   reply_all : BOOLEAN]

\* what messages.get can answer for message id (the handler reads "snippet")
RepliedMessages(id) ==
  {[id |-> id, snippet |-> s] : s \in Snippets} \cup {[id |-> id]}

RePrefix == <<"R","e",":"," ">>

\* ReplySubject without the prefixing of line 163
ReplySubject_no_prefix(snippet) == snippet

\* ReplySubject with startswith("Re:") on the text as written, lower() left out
ReplySubject_case_sensitive(snippet) ==
  IF ~StartsWith(snippet, <<"R","e",":">>)
    THEN RePrefix \o snippet
    ELSE snippet

\* lines 161-163
ReplySubject(snippet) ==
  IF ~StartsWith(Lower(snippet), <<"r","e",":">>)
    THEN RePrefix \o snippet
    ELSE snippet

\* base64.urlsafe_b64encode(message.as_bytes()).decode()
urlsafe_b64encode(message) == [encoding |-> "base64url", bytes |-> message]

reply_to_email(r) ==
  /\ Idle
  /\ handler' = "reply_to_email"
  /\ req' = r
  /\ local' = [message |-> [content |-> r.body, To |-> r.to, From |-> "me"]]
  /\ calls' = << GetMessageCall(r.message_id) >>
  /\ returns' = <<>>
  /\ resp' = [status |-> "none"]
  /\ pc' = "reply_get"
  /\ UNCHANGED utcNow

\* ReplyFailed without the except clause: every exception escapes
ReplyFailed_propagates(outcome) ==
  /\ resp' = Error500
  /\ pc' = "done"
  /\ UNCHANGED <<local, calls>>

\* except HttpError: return None; anything else escapes the handler
ReplyFailed(outcome) ==
  /\ resp' = IF outcome = "HttpError" THEN [status |-> "ok", body |-> JNull]
                                      ELSE Error500
  /\ pc' = "done"
  /\ UNCHANGED <<local, calls>>

\* lines 161-181
ReplyCompose(msg) ==
  IF "snippet" \notin DOMAIN msg
    THEN ReplyFailed("Other")
    ELSE LET message == [content |-> local.message.content,
                         To |-> local.message.To,
                         From |-> local.message.From,
                         Subject |-> ReplySubject(msg.snippet),
                         InReplyTo |-> req.message_id,
                         References |-> req.message_id]
             create_message == [raw |-> urlsafe_b64encode(message),
                                threadId |-> req.message_id]
         IN /\ local' = [message |-> message, msg |-> msg]
            /\ calls' = Append(calls, [op |-> "messages.send", userId |-> "me",
                                       body |-> create_message])
            /\ pc' = "reply_send"
            /\ UNCHANGED resp

ReplyGetReturn ==
  /\ pc = "reply_get"
  /\ \/ /\ \E msg \in RepliedMessages(req.message_id) : ReplyCompose(msg)
        /\ returns' = Append(returns, "ok")
     \/ \E outcome \in Outcomes \ {"ok"} :
          ReplyFailed(outcome) /\ returns' = Append(returns, outcome)
  /\ UNCHANGED <<utcNow, handler, req>>

ReplySendReturn ==
  /\ pc = "reply_send"
  /\ \/ /\ resp' = [status |-> "ok",
                    body |-> JObj([id |-> "sent1", threadId |-> req.message_id])]
        /\ pc' = "done"
        /\ returns' = Append(returns, "ok")
        /\ UNCHANGED <<local, calls>>
     \/ \E outcome \in Outcomes \ {"ok"} :
          ReplyFailed(outcome) /\ returns' = Append(returns, outcome)
  /\ UNCHANGED <<utcNow, handler, req>>


(* --------------------------- ISO-8601 texts --------------------------- *)
Digits == <<"0","1","2","3","4","5","6","7","8","9">>
IsDigit(c) == \E i \in 1..10 : Digits[i] = c
DigitVal(c) == (CHOOSE i \in 1..10 : Digits[i] = c) - 1

\* the text "<date>T<time><zone>", or "<date>" when time and zone are empty
IsoText(d, t, z) == [kind |-> "str", iso |-> [date |-> d, time |-> t, zone |-> z]]

ZoneZ == <<"Z">>
ZonePlus0800 == <<"+","0","8",":","0","0">>

\* str.replace("Z", "+00:00"), on the zone suffix (the only place a Z occurs)
RECURSIVE ReplaceZChars(_)
ReplaceZChars(z) ==
  IF z = <<>> THEN <<>>
  ELSE (IF Head(z) = "Z" THEN <<"+","0","0",":","0","0">> ELSE <<Head(z)>>)
         \o ReplaceZChars(Tail(z))

ReplaceZ(iso) == [iso EXCEPT !.zone = ReplaceZChars(iso.zone)]

\* the UTC offset "+HH:MM" / "-HH:MM" as fromisoformat reads it, in minutes
ParseOffset(z) ==
  IF /\ Len(z) = 6
     /\ z[1] \in {"+", "-"}
     /\ IsDigit(z[2]) /\ IsDigit(z[3]) /\ z[4] = ":"
     /\ IsDigit(z[5]) /\ IsDigit(z[6])
     /\ 10 * DigitVal(z[2]) + DigitVal(z[3]) < 24
     /\ 10 * DigitVal(z[5]) + DigitVal(z[6]) < 60
    THEN [ok |-> TRUE,
          v |-> (IF z[1] = "-" THEN -1 ELSE 1)
                  * (60 * (10 * DigitVal(z[2]) + DigitVal(z[3]))
                      + 10 * DigitVal(z[5]) + DigitVal(z[6]))]
    ELSE [ok |-> FALSE]

\* datetime.datetime.fromisoformat: the date and time as written (a date-only
\* text is midnight), the offset of the suffix; ValueError on another suffix
fromisoformat(iso) ==
  LET t == IF iso.time = <<>> THEN <<0, 0, 0>> ELSE iso.time
  IN IF iso.zone = <<>>
       THEN [exc |-> "none", date |-> iso.date, time |-> t, aware |-> FALSE, offset |-> 0]
     ELSE IF iso.time # <<>> /\ ParseOffset(iso.zone).ok
       THEN [exc |-> "none", date |-> iso.date, time |-> t, aware |-> TRUE,
             offset |-> ParseOffset(iso.zone).v]
     ELSE [exc |-> "ValueError"]

TwoDigits(n) == <<Digits[(n \div 10) + 1], Digits[(n % 10) + 1]>>

\* the "+HH:MM" suffix isoformat() writes for an offset in minutes
FormatOffset(mins) ==
  LET a == IF mins < 0 THEN -mins ELSE mins
  IN <<IF mins < 0 THEN "-" ELSE "+">> \o TwoDigits(a \div 60)
       \o <<":">> \o TwoDigits(a % 60)

\* datetime.isoformat() of an aware datetime
isoformat(dt) == IsoText(dt.date, dt.time, FormatOffset(dt.offset))

(* ------------------------ GET /calendar/events ------------------------ *)
TimesOfDay == { <<9, 0, 0>>, <<23, 30, 15>> }

\* dict.get(k, default)
Get(d, k, default) == IF k \in DOMAIN d THEN d[k] ELSE default

\* d.get("dateTime") or d.get("date")
DateTimeOrDate(d) ==
  IF "dateTime" \in DOMAIN d THEN d.dateTime ELSE Get(d, "date", JNull)

\* the start objects of the remote's events: a dateTime in Z or +08:00, an
\* all-day date, both, or neither
EventTimes ==
  UNION {{ [dateTime |-> IsoText(d, <<9, 0, 0>>, ZoneZ)],
           [dateTime |-> IsoText(d, <<23, 30, 15>>, ZonePlus0800)],
           [date |-> IsoText(d, <<>>, <<>>)],
           [dateTime |-> IsoText(d, <<9, 0, 0>>, ZoneZ),
            date |-> IsoText(MaxDay - d, <<>>, <<>>)] } : d \in Days}
    \cup { [timeZone |-> JStr(<<"U","T","C">>)] }

RawEvents ==
  {[id |-> "e1", summary |-> "Standup", start |-> t, end |-> t] : t \in EventTimes}
    \cup {[id |-> "e2", start |-> t, end |-> t] : t \in EventTimes}

EventLists == {r \in SeqsUpTo(RawEvents, MaxEvents) : Len(r) <= MaxResults}

\* lines 233-236: the calendar date of the event's start as written
EventDate(event) ==
  LET start == DateTimeOrDate(event.start)
  IN IF start.kind = "null" THEN [exc |-> "AttributeError"]
     ELSE fromisoformat(ReplaceZ(start.iso))

\* IsToday against a date read from the clock again, not the sampled one
IsToday_resampled(event, today) == EventDate(event).date = utcNow

\* line 239
IsToday(event, today) == EventDate(event).date = today

\* lines 240-247
SimplifiedEvent(event) ==
  [eventId |-> event.id,
   summary |-> IF "summary" \in DOMAIN event THEN event.summary ELSE "No Title",
   start |-> DateTimeOrDate(event.start),
   end |-> DateTimeOrDate(event.end)]

\* the loop of lines 231-247 from event i on
RECURSIVE SimplifyEvents(_, _, _)
SimplifyEvents(events, i, today) ==
  IF i > Len(events) THEN [exc |-> "none", v |-> <<>>]
  ELSE IF EventDate(events[i]).exc # "none" THEN [exc |-> EventDate(events[i]).exc]
  ELSE LET rest == SimplifyEvents(events, i + 1, today)
       IN IF rest.exc # "none" THEN rest
          ELSE IF IsToday(events[i], today)
            THEN [exc |-> "none", v |-> <<SimplifiedEvent(events[i])>> \o rest.v]
            ELSE rest

get_calendar_events ==
  /\ Idle
  /\ handler' = "get_calendar_events"
  /\ req' = [none |-> TRUE]
  /\ local' = [today |-> utcNow]
  /\ calls' = << [op |-> "events.list", calendarId |-> "primary",
                  timeMin |-> IsoText(utcNow, <<0, 0, 0>>, FormatOffset(0)),
                  timeMax |-> IsoText(utcNow, <<23, 59, 59>>, FormatOffset(0)),
                  maxResults |-> MaxResults, singleEvents |-> TRUE,
                  orderBy |-> "startTime"] >>
  /\ returns' = <<>>
  /\ resp' = [status |-> "none"]
  /\ pc' = "events_list"
  /\ UNCHANGED utcNow

\* lines 224-249
EventsListed(events) ==
  LET r == SimplifyEvents(events, 1, local.today)
  IN /\ local' = [today |-> local.today, events |-> events]
     /\ resp' = IF events = <<>> THEN [status |-> "ok", events |-> <<>>]
                ELSE IF r.exc # "none" THEN Error500
                ELSE [status |-> "ok", events |-> r.v]

EventsListReturn ==
  /\ pc = "events_list"
  /\ \/ /\ \E events \in EventLists : EventsListed(events)
        /\ returns' = Append(returns, "ok")
     \/ /\ resp' = Error500
        /\ \E outcome \in Outcomes \ {"ok"} : returns' = Append(returns, outcome)
        /\ UNCHANGED local
  /\ pc' = "done"
  /\ UNCHANGED <<utcNow, handler, req, calls>>


(* -------------------------- pydantic models --------------------------- *)
\* a field the request body did not carry
Unset == [kind |-> "unset"]
\* a nested model (EventDateTime)
JModel(fields) == [kind |-> "model", fields |-> fields]

\* BaseModel.dict(exclude_unset=True): the fields that were set, nested
\* models included; a field set to null stays, as None
DictExcludeUnset(fields) ==
  LET Inner(m) == [k \in {f \in DOMAIN m : m[f].kind # "unset"} |-> m[k]]
  IN [k \in {f \in DOMAIN fields : fields[f].kind # "unset"} |->
        IF fields[k].kind = "model" THEN JObj(Inner(fields[k].fields))
                                    ELSE fields[k]]

(* ------------------------ POST /calendar/events ----------------------- *)
AsiaKualaLumpur ==
  <<"A","s","i","a","/","K","u","a","l","a","_","L","u","m","p","u","r">>

\* str.split(":")[0]
RECURSIVE BeforeColon(_)
BeforeColon(s) ==
  IF s = <<>> \/ Head(s) = ":" THEN <<>> ELSE <<Head(s)>> \o BeforeColon(Tail(s))

RECURSIVE DigitsValue(_)
DigitsValue(s) ==
  IF s = <<>> THEN 0
  ELSE 10 * DigitsValue(SubSeq(s, 1, Len(s) - 1)) + DigitVal(s[Len(s)])

\* int(s): an optional sign and decimal digits, else ValueError
int(s) ==
  LET signed == s # <<>> /\ Head(s) \in {"+", "-"}
      digits == IF signed THEN Tail(s) ELSE s
  IN IF digits # <<>> /\ \A i \in 1..Len(digits) : IsDigit(digits[i])
       THEN [ok |-> TRUE,
             v |-> IF signed /\ Head(s) = "-" THEN -DigitsValue(digits)
                                              ELSE DigitsValue(digits)]
       ELSE [ok |-> FALSE]

\* combine that keeps the date of the input
combine_keeps_date(today, dt, hours) ==
  [date |-> dt.date, time |-> dt.time, offset |-> 60 * hours]

\* line 353: datetime.combine(today, dt.time()).replace(tzinfo=tz), tz being
\* the fixed offset of that many hours
combine(today, dt, hours) ==
  [date |-> today, time |-> dt.time, offset |-> 60 * hours]

\* lines 345-355, with the enclosing function's today
adjust_datetime(dt_str, timezone_str, today) ==
  IF dt_str.kind = "null" THEN [exc |-> "AttributeError"]
  ELSE LET dt == fromisoformat(ReplaceZ(dt_str.iso))
       IN IF dt.exc # "none" THEN [exc |-> "ValueError"]
          ELSE IF timezone_str.kind = "null" THEN [exc |-> "AttributeError"]
          ELSE LET hours == int(BeforeColon(timezone_str.s))
               IN IF ~hours.ok THEN [exc |-> "ValueError"]
                  \* datetime.timezone wants an offset strictly within a day
                  ELSE IF hours.v >= 24 \/ hours.v <= -24 THEN [exc |-> "ValueError"]
                  ELSE [exc |-> "none", v |-> isoformat(combine(today, dt, hours.v))]

TimeZoneTexts ==
  { <<"+","0","8",":","0","0">>, <<"-","0","5",":","0","0">>,
    <<"+","0","5",":","3","0">>, <<"-","0","0",":","3","0">>,
    <<"+","2","5",":","0","0">>, AsiaKualaLumpur }

DateTimeTexts ==
  {IsoText(d, t, z) : d \in Days \ {MaxDay}, t \in TimesOfDay,
                      z \in {ZoneZ, ZonePlus0800}}

EventDateTimes ==
  {JModel([date |-> Unset, dateTime |-> dt, timeZone |-> tz]) :
     dt \in {Unset, JNull} \cup DateTimeTexts,
     tz \in {Unset, JNull} \cup {JStr(z) : z \in TimeZoneTexts}}

\* CalendarEventCreate; the optional fields other than start and end unset
CalendarEventCreates ==
  {[summary |-> JStr(<<"T","e","s","t">>), location |-> Unset,
    description |-> Unset, start |-> st, end |-> en,
    attendees |-> Unset, reminders |-> Unset, recurrence |-> Unset] :
     st \in EventDateTimes, en \in EventDateTimes}

create_calendar_event(event_data) ==
  /\ Idle
  /\ handler' = "create_calendar_event"
  /\ req' = event_data
  /\ local' = [today |-> utcNow, event_dict |-> DictExcludeUnset(event_data)]
  /\ calls' = <<>>
  /\ returns' = <<>>
  /\ resp' = [status |-> "none"]
  /\ pc' = "create_start"
  /\ UNCHANGED utcNow

\* lines 359 and 366-369
StartTimeZone(event_dict) ==
  Get(event_dict.start.o, "timeZone", JStr(AsiaKualaLumpur))

EndTimeZone(event_dict) ==
  Get(event_dict.end.o, "timeZone",
      Get(Get(event_dict, "start", JObj(<<>>)).o, "timeZone", JStr(AsiaKualaLumpur)))

\* except Exception: raise HTTPException(500)
CreateFailed ==
  /\ resp' = Error500
  /\ pc' = "done"
  /\ UNCHANGED <<local, calls>>

\* lines 358-362
CreateAdjustStart ==
  /\ pc = "create_start"
  /\ LET d == local.event_dict
     IN IF "start" \in DOMAIN d /\ "dateTime" \in DOMAIN d.start.o
          THEN LET r == adjust_datetime(d.start.o.dateTime, StartTimeZone(d), local.today)
               IN IF r.exc # "none" THEN CreateFailed
                  ELSE /\ local' = [local EXCEPT !.event_dict.start.o.dateTime = r.v]
                       /\ pc' = "create_end"
                       /\ UNCHANGED <<calls, resp>>
          ELSE /\ pc' = "create_end"
               /\ UNCHANGED <<local, calls, resp>>
  /\ UNCHANGED <<utcNow, handler, req, returns>>

InsertCall(event_dict) ==
  [op |-> "events.insert", calendarId |-> "primary", body |-> event_dict,
   sendUpdates |-> "all"]

\* lines 364-383
CreateAdjustEnd ==
  /\ pc = "create_end"
  /\ LET d == local.event_dict
     IN IF "end" \in DOMAIN d /\ "dateTime" \in DOMAIN d.end.o
          THEN LET r == adjust_datetime(d.end.o.dateTime, EndTimeZone(d), local.today)
               IN IF r.exc # "none" THEN CreateFailed
                  ELSE /\ local' = [local EXCEPT !.event_dict.end.o.dateTime = r.v]
                       /\ calls' = Append(calls, InsertCall(local'.event_dict))
                       /\ pc' = "create_insert"
                       /\ UNCHANGED resp
          ELSE /\ calls' = Append(calls, InsertCall(d))
               /\ pc' = "create_insert"
               /\ UNCHANGED <<local, resp>>
  /\ UNCHANGED <<utcNow, handler, req, returns>>

\* lines 386-396: the remote's event echoes the submitted body
CreatedEvent(body) ==
  [eventId |-> "ev1",
   summary |-> body.summary,
   start |-> Get(body.start.o, "dateTime", JNull),
   end |-> Get(body.end.o, "dateTime", JNull),
   timeZone |-> Get(body.start.o, "timeZone", JNull)]

CreateInsertReturn ==
  /\ pc = "create_insert"
  /\ \/ /\ resp' = [status |-> "ok", body |-> CreatedEvent(calls[Len(calls)].body)]
        /\ pc' = "done"
        /\ returns' = Append(returns, "ok")
        /\ UNCHANGED <<local, calls>>
     \/ /\ CreateFailed
        /\ \E outcome \in Outcomes \ {"ok"} : returns' = Append(returns, outcome)
  /\ UNCHANGED <<utcNow, handler, req>>

(* ------------------- PUT /calendar/events/{event_id} ------------------ *)
EventIds == { "ev1", "ev2" }

OptionalTexts == { Unset, JNull, JStr(<<"N","e","w">>) }

UpdateDateTimes ==
  {JModel([date |-> Unset, dateTime |-> dt, timeZone |-> tz]) :
     dt \in {Unset, JNull, IsoText(0, <<9, 0, 0>>, ZonePlus0800)},
     tz \in {Unset, JNull, JStr(AsiaKualaLumpur)}}

CalendarEventUpdates ==
  [start : {Unset, JNull} \cup UpdateDateTimes,
   end : {Unset, JNull} \cup UpdateDateTimes,
   summary : OptionalTexts,
   description : OptionalTexts,
   location : {Unset}]

\* lines 431-435
UpdateDict(update_data) ==
  LET d == DictExcludeUnset(update_data)
  IN [k \in {f \in DOMAIN d : d[f].kind # "null"} |-> d[k]]

update_calendar_event(event_id, update_data) ==
  /\ Idle
  /\ handler' = "update_calendar_event"
  /\ req' = [event_id |-> event_id, update_data |-> update_data]
  /\ local' = [update_dict |-> UpdateDict(update_data)]
  /\ calls' = << [op |-> "events.update", calendarId |-> "primary",
                  eventId |-> event_id, body |-> UpdateDict(update_data)] >>
  /\ returns' = <<>>
  /\ resp' = [status |-> "none"]
  /\ pc' = "update_call"
  /\ UNCHANGED utcNow

UpdateReturn ==
  /\ pc = "update_call"
  /\ \/ /\ resp' = [status |-> "ok", body |-> JObj(calls[1].body)]
        /\ returns' = Append(returns, "ok")
     \/ /\ resp' = Error500
        /\ \E outcome \in Outcomes \ {"ok"} : returns' = Append(returns, outcome)
  /\ pc' = "done"
  /\ UNCHANGED <<utcNow, handler, req, local, calls>>

(* ------------------------------ GET /health --------------------------- *)
\* line 6, import datetime: the global name datetime is the module
GlobalDatetime == "module datetime"

\* getattr(obj, "now"): a classmethod of the class datetime.datetime, no
\* attribute of the module
HasNow(obj) == obj = "class datetime.datetime"

\* line 458
health_check ==
  /\ Idle
  /\ handler' = "health_check"
  /\ req' = [none |-> TRUE]
  /\ local' = [none |-> TRUE]
  /\ calls' = <<>>
  /\ returns' = <<>>
  /\ resp' = IF HasNow(GlobalDatetime)
               THEN [status |-> "ok", body |-> [status |-> "healthy", timestamp |-> utcNow]]
               ELSE Error500
  /\ pc' = "done"
  /\ UNCHANGED utcNow

(* --------------------------- the whole service ------------------------ *)
\* a request arrives, with any body the schema accepts
GetEmails == Idle /\ \E label \in Labels : get_emails(label)

ReplyToEmail == Idle /\ \E r \in ReplyRequests : reply_to_email(r)

CreateCalendarEvent ==
  Idle /\ \E event_data \in CalendarEventCreates : create_calendar_event(event_data)

UpdateCalendarEvent ==
  Idle /\ \E event_id \in EventIds, update_data \in CalendarEventUpdates :
            update_calendar_event(event_id, update_data)

Next ==
  \/ Tick
  \/ GetEmails
  \/ EmailsListReturn
  \/ EmailsGetReturn
  \/ ReplyToEmail
  \/ ReplyGetReturn
  \/ ReplySendReturn
  \/ get_calendar_events
  \/ EventsListReturn
  \/ CreateCalendarEvent
  \/ CreateAdjustStart
  \/ CreateAdjustEnd
  \/ CreateInsertReturn
  \/ UpdateCalendarEvent
  \/ UpdateReturn
  \/ health_check

Spec == Init /\ [][Next]_vars


(* ------------------------------- claims ------------------------------- *)
IsText(j) == j.kind = "str"

\* a "+HH:MM" / "-HH:MM" text naming a whole number of hours
WholeHour(j) ==
  /\ j.kind = "str"
  /\ ParseOffset(j.s).ok
  /\ ParseOffset(j.s).v % 60 = 0

\* out is the text in with the date replaced by the request's today and the
\* zone suffix replaced by the offset tz names
Adjusted(out, in, tz) ==
  /\ out.kind = "str"
  /\ out.iso.time = in.iso.time
  /\ out.iso.date = local.today
  /\ ParseOffset(out.iso.zone).ok
  /\ ParseOffset(out.iso.zone).v = ParseOffset(tz.s).v

\* the timeZone the request gives for end: its own, else that of start
GivenEndZone ==
  IF req.end.fields.timeZone.kind # "unset" THEN req.end.fields.timeZone
  ELSE req.start.fields.timeZone

\* C2: for a dateTime and a whole-hour "+HH:MM" / "-HH:MM" timezone text,
\* adjust_datetime returns the input's time of day on the UTC date sampled at
\* the start of the request, at the given offset; this for start and for end.
C2_AdjustKeepsTimeOfDay ==
  handler = "create_calendar_event" =>
    /\ ( /\ pc \in {"create_end", "create_insert"}
         /\ IsText(req.start.fields.dateTime)
         /\ WholeHour(req.start.fields.timeZone) )
       => Adjusted(local.event_dict.start.o.dateTime,
                   req.start.fields.dateTime, req.start.fields.timeZone)
    /\ ( /\ pc = "create_insert"
         /\ IsText(req.end.fields.dateTime)
         /\ WholeHour(GivenEndZone) )
       => /\ Adjusted(local.event_dict.end.o.dateTime,
                      req.end.fields.dateTime, GivenEndZone)
          /\ calls[1].body = local.event_dict

C2_Witness ==
  /\ handler = "create_calendar_event"
  /\ pc = "create_insert"
  /\ req.start.fields.timeZone = JStr(<<"-","0","5",":","0","0">>)
  /\ IsText(req.start.fields.dateTime)
  /\ req.start.fields.dateTime.iso.zone = ZonePlus0800
  /\ req.start.fields.dateTime.iso.date # local.today
  /\ IsText(req.end.fields.dateTime)
  /\ req.end.fields.timeZone.kind = "unset"
  /\ utcNow # local.today

\* C3: a create request whose start.dateTime and end.dateTime carry +08:00
\* and that supplies no timeZone ends with exactly one insert call, whose
\* dateTimes have today's date, the original time of day and offset +08:00.
C3_CreateWithoutTimeZoneInserts ==
  ( /\ handler = "create_calendar_event"
    /\ pc = "done"
    /\ IsText(req.start.fields.dateTime)
    /\ req.start.fields.dateTime.iso.zone = ZonePlus0800
    /\ IsText(req.end.fields.dateTime)
    /\ req.end.fields.dateTime.iso.zone = ZonePlus0800
    /\ req.start.fields.timeZone.kind = "unset"
    /\ req.end.fields.timeZone.kind = "unset" )
  => /\ Len(calls) = 1
     /\ calls[1].op = "events.insert"
     /\ calls[1].body.start.o.dateTime =
          IsoText(local.today, req.start.fields.dateTime.iso.time, ZonePlus0800)
     /\ calls[1].body.end.o.dateTime =
          IsoText(local.today, req.end.fields.dateTime.iso.time, ZonePlus0800)

\* the fields of a request body that carry a value other than null
Supplied(fields) == {f \in DOMAIN fields : fields[f].kind \notin {"unset", "null"}}

\* the body the claim expects: the supplied non-null fields, the nested
\* start / end objects reduced the same way
SuppliedNonNull(fields) ==
  [k \in Supplied(fields) |->
     IF fields[k].kind = "model"
       THEN JObj([n \in Supplied(fields[k].fields) |-> fields[k].fields[n]])
       ELSE fields[k]]

\* C4: the body of the remote update call holds exactly the fields the caller
\* supplied with non-null values, at the top level and inside start / end,
\* and the call is keyed by the event_id of the path.
C4_UpdateBodyHasNoNull ==
  (handler = "update_calendar_event" /\ pc \in {"update_call", "done"}) =>
    /\ Len(calls) = 1
    /\ calls[1].op = "events.update"
    /\ calls[1].eventId = req.event_id
    /\ calls[1].body = SuppliedNonNull(req.update_data)

NullResponse == [status |-> "ok", body |-> JNull]

SendCalls == {i \in 1..Len(calls) : calls[i].op = "messages.send"}

\* C5: a reply whose fetch or send ends in a remote API error (HttpError)
\* answers null and no error; after a failed fetch no send is dispatched.
C5_ReplySwallowsApiError ==
  handler = "reply_to_email" =>
    /\ (pc = "done" /\ returns[Len(returns)] = "HttpError") => resp = NullResponse
    /\ (returns # <<>> /\ returns[1] # "ok") => (pc = "done" /\ SendCalls = {})

C5_Witness ==
  /\ handler = "reply_to_email"
  /\ pc = "done"
  /\ returns = <<"ok", "HttpError">>
  /\ resp = NullResponse

\* C6: in a successful reply the original is fetched by message_id before the
\* one send call is dispatched, and the message sent has In-Reply-To,
\* References and threadId equal to message_id, To the request's to, From
\* "me", and the snippet-derived subject ("meeting notes" gives
\* "Re: meeting notes").
C6_ReplyIsThreaded ==
  handler = "reply_to_email" =>
    /\ pc = "reply_send" => (returns = <<"ok">> /\ Len(calls) = 2)
    /\ (pc = "done" /\ resp.status = "ok" /\ resp.body.kind = "obj") =>
         /\ returns = <<"ok", "ok">>
         /\ Len(calls) = 2
         /\ calls[1] = [op |-> "messages.get", userId |-> "me", id |-> req.message_id]
         /\ calls[2].op = "messages.send"
         /\ calls[2].body.threadId = req.message_id
         /\ LET sent == calls[2].body.raw.bytes
            IN /\ sent.InReplyTo = req.message_id
               /\ sent.References = req.message_id
               /\ sent.To = req.to
               /\ sent.From = "me"
               /\ sent.content = req.body
               /\ sent.Subject \in {local.msg.snippet, RePrefix \o local.msg.snippet}
               /\ local.msg.snippet = MeetingNotes =>
                    sent.Subject = <<"R","e",":"," ">> \o MeetingNotes

C6_Witness ==
  /\ handler = "reply_to_email"
  /\ pc = "done"
  /\ resp.status = "ok"
  /\ resp.body.kind = "obj"
  /\ req.message_id = "abc123"
  /\ local.msg.snippet = MeetingNotes

\* C7: a list of n message references whose detail fetches all succeed gives
\* one list call followed by exactly n detail fetches in list order and the
\* response {emails, count} with count = n and emails[i] the normalization
\* of the i-th listed message; n = 0 gives {emails: [], count: 0}, no fetch.
C7_EmailsInListOrder ==
  (handler = "get_emails" /\ pc = "done" /\ resp.status = "ok") =>
    LET n == Len(local.messages)
    IN /\ calls[1].op = "messages.list"
       /\ Len(calls) = 1 + n
       /\ returns = [i \in 1..(1 + n) |-> "ok"]
       /\ resp.count = n
       /\ Len(resp.emails) = n
       /\ \A i \in 1..n :
            /\ calls[1 + i] = [op |-> "messages.get", userId |-> "me",
                               id |-> local.messages[i].id]
            /\ local.fetched[i].id = local.messages[i].id
            /\ resp.emails[i].email_id = local.messages[i].id
            /\ resp.emails[i] = get_message_data(local.fetched[i])

C7_Witness ==
  /\ handler = "get_emails"
  /\ pc = "done"
  /\ resp.status = "ok"
  /\ resp.count = 2
  /\ local.messages[1].id # local.messages[2].id
  /\ local.fetched[1].headers # local.fetched[2].headers

\* a is b with some elements left out
RECURSIVE IsSubseq(_, _)
IsSubseq(a, b) ==
  IF a = <<>> THEN TRUE
  ELSE IF b = <<>> THEN FALSE
  ELSE IF Head(a) = Head(b) THEN IsSubseq(Tail(a), Tail(b))
  ELSE IsSubseq(a, Tail(b))

\* C8: every event of the list-events response has a start value (dateTime
\* before date) whose calendar date as written is the UTC date sampled at
\* the start of the request, and the events keep the remote's order.
C8_OnlyTodaysEvents ==
  (handler = "get_calendar_events" /\ pc = "done" /\ resp.status = "ok") =>
    /\ \A i \in 1..Len(resp.events) :
         /\ resp.events[i].start.kind = "str"
         /\ resp.events[i].start.iso.date = local.today
    /\ resp.events # <<>> =>
         IsSubseq(resp.events,
                  [i \in 1..Len(local.events) |-> SimplifiedEvent(local.events[i])])

C8_Witness ==
  /\ handler = "get_calendar_events"
  /\ pc = "done"
  /\ resp.status = "ok"
  /\ Len(local.events) = 2
  /\ Len(resp.events) = 1
  /\ resp.events[1].start.iso.zone = ZoneZ
  /\ resp.events[1] = SimplifiedEvent(local.events[2])
  /\ utcNow # local.today

\* s begins with "re:" in some letter case
BeginsWithRe(s) ==
  /\ Len(s) >= 3
  /\ s[1] \in {"r", "R"}
  /\ s[2] \in {"e", "E"}
  /\ s[3] = ":"

\* how many times "Re: " stands at the front of s
RECURSIVE RePrefixCount(_)
RePrefixCount(s) ==
  IF StartsWith(s, RePrefix) THEN 1 + RePrefixCount(SubSeq(s, 5, Len(s))) ELSE 0

\* C9 as stated: whatever the snippet, the subject of the message sent
\* carries exactly one "Re: " prefix.
C9_ExactlyOneRePrefix ==
  (handler = "reply_to_email" /\ pc = "reply_send") =>
    RePrefixCount(calls[2].body.raw.bytes.Subject) = 1

\* C9 as amended: a snippet that does not begin with "re:" in any letter
\* case gets "Re: " prepended and then carries exactly one "Re: " prefix; a
\* snippet that begins with "re:" is the subject unchanged; either way the
\* subject begins with "re:" and deriving a subject from it changes nothing.
C9_RePrefixOnlyWhenAbsent ==
  (handler = "reply_to_email" /\ pc = "reply_send") =>
    LET snippet == local.msg.snippet
        subject == calls[2].body.raw.bytes.Subject
    IN /\ BeginsWithRe(subject)
       /\ ~BeginsWithRe(snippet) =>
            (subject = RePrefix \o snippet /\ RePrefixCount(subject) = 1)
       /\ BeginsWithRe(snippet) => subject = snippet
       /\ ReplySubject(subject) = subject

C9_Witness ==
  /\ handler = "reply_to_email"
  /\ pc = "reply_send"
  /\ local.msg.snippet = <<"R","E",":"," ","x">>
  /\ calls[2].body.raw.bytes.Subject = <<"R","E",":"," ","x">>

\* C10: every GET /health ends successfully with status "healthy".
C10_HealthIsHealthy ==
  (handler = "health_check" /\ pc = "done") =>
    /\ resp.status = "ok"
    /\ resp.body.status = "healthy"

====
